---------------------------- MODULE Spec2Model ----------------------------
(***************************************************************************)
(* Model of amethyst_rendy/src/batch.rs: the TwoLevelBatch store (a hash   *)
(* map from primary key to a Shell of BatchData records plus a running     *)
(* item count), the bounded-scan merge of BatchPrimitives::insert_batch,   *)
(* and the contiguous grouper GroupIterator::for_each_group.               *)
(***************************************************************************)
EXTENDS Integers, Sequences, FiniteSets, TLC

(***************************************************************************)
(* Bounds of the model.                                                    *)
(***************************************************************************)
\* Spec: largest number of BatchData records the whole store may hold, and
\* largest number of items passed to insert within one epoch.
MaxRecords == 4
MaxCount == 2
\* SpecWindow (one primary key, Shells longer than the scan window): the same.
WinRecords == 10
WinCount == 2
\* Largest input length handed to for_each_group.
MaxLen == 4

(***************************************************************************)
(* Program constants.                                                      *)
(***************************************************************************)
\* Faults: a scan one slot short, a scan one slot long.
ScanWindowShort == 8 - 1
ScanWindowLong == 8 + 1

\* batch.rs:120  .take(8)
ScanWindow == 8

\* Primary keys: opaque values with equality and hashing.
PK == {"p", "q"}
\* Secondary keys: opaque values compared by equality only (batch.rs:121).
\* A fresh key is named by the next unused number of its Shell.
SK == 1 .. (MaxRecords + WinRecords)
\* Group identifiers and values fed to the grouper.
GroupId == {"A", "B"}
Value == {1, 2}

VARIABLES
    map,         \* TwoLevelBatch.map : PK -> Shell, a function on the present keys
    data_count,  \* TwoLevelBatch.data_count
    out,         \* what the last call returned (iter, data, count); <<>> otherwise
    last,        \* the last call made on the store and its arguments
    prev,        \* the store as it was before the last call
    before_clear,\* (pk, sk) pairs that had a record when the last clear_inner
                 \* began, kept for the one call that follows that clear_inner
    fed,         \* (pk, sk) -> items passed to insert since the last clear_inner
    input,       \* the (key, value) sequence for_each_group consumes
    pos,         \* number of input pairs already taken from the iterator
    block,       \* Option<(K, Vec<V>)>: <<>> is None, <<[id, buf]>> is Some
    calls,       \* the (group id, buffer) pairs on_group was invoked with
    left,        \* what on_group left in the buffer, one entry per invocation
    pc           \* position of for_each_group: "idle", "loop", "flush", "done"

storeVars == <<map, data_count, out, last, prev, before_clear, fed>>
groupVars == <<input, pos, block, calls, left, pc>>
vars == <<map, data_count, out, last, prev, before_clear, fed,
          input, pos, block, calls, left, pc>>

Min(a, b) == IF a <= b THEN a ELSE b

(***************************************************************************)
(* BatchData and the BatchType capability.                                 *)
(***************************************************************************)
BatchData(key, collection) == [key |-> key, collection |-> collection]

\* BatchType::key
key(b) == b.key

\* Faults: the collection is replaced by the new items; the new items are
\* put in front of the collection.
extend_replaces(b, vals) == [b EXCEPT !.collection = vals]
extend_in_front(b, vals) == [b EXCEPT !.collection = vals \o @]

\* BatchType::extend: self.collection.extend(vals)
extend(b, vals) == [b EXCEPT !.collection = @ \o vals]

\* Fault: the fresh record is built without the items.
new_without_items(batch_key, vals) == BatchData(batch_key, << >>)

\* BatchType::new: collection = vals.into_iter().collect()
new(batch_key, vals) == BatchData(batch_key, vals)

(***************************************************************************)
(* BatchPrimitives for TwoLevelBatch: the Shell is a SmallVec of records.  *)
(***************************************************************************)
wrap_batch(batch) == <<batch>>

\* Fault: the record is put in front of the Shell.
push_front(shell, batch) == <<batch>> \o shell

push(shell, batch) == Append(shell, batch)

batches_mut(shell) == shell

\* .iter_mut().take(8).find(|b| b.key() == &batch_key): the index of the first
\* record among the first ScanWindow whose key is batch_key, 0 when none.
find(shell, batch_key) ==
    LET slots == batches_mut(shell)
        hits == {i \in 1 .. Min(ScanWindow, Len(slots)) : key(slots[i]) = batch_key}
    IN  IF hits = {} THEN 0 ELSE CHOOSE i \in hits : \A j \in hits : i <= j

\* BatchPrimitives::insert_batch on the entry of pk in map m.
insert_batch(m, pk, batch_key, instance_data) ==
    IF pk \in DOMAIN m
    THEN LET shell == m[pk]
             i == find(shell, batch_key)
         IN  IF i # 0
             THEN [m EXCEPT ![pk] = [shell EXCEPT ![i] = extend(shell[i], instance_data)]]
             ELSE [m EXCEPT ![pk] = push(shell, new(batch_key, instance_data))]
    ELSE [p \in DOMAIN m \cup {pk} |->
            IF p = pk THEN wrap_batch(new(batch_key, instance_data)) ELSE m[p]]

(***************************************************************************)
(* TwoLevelBatch.                                                          *)
(***************************************************************************)
self == [map |-> map, data_count |-> data_count]

\* util::TapCountIter: adds to the counter the number of items pulled through
\* it.  insert_batch pulls every item on each of its paths (extend, collect).
tap_count(items) == Len(items)

\* Fault: the records are kept and only their collections are emptied.
clear_collections(shell) == [i \in DOMAIN shell |-> [shell[i] EXCEPT !.collection = << >>]]

\* SmallVec::clear on one Shell (batch.rs:156).
clear(shell) == << >>

\* Faults: the map itself is cleared; the count is not reset.
clear_inner_drops_shells(s) == [map |-> << >>, data_count |-> 0]
clear_inner_keeps_count(s) ==
    [map |-> [p \in DOMAIN s.map |-> clear(s.map[p])], data_count |-> s.data_count]

clear_inner(s) ==
    [map |-> [p \in DOMAIN s.map |-> clear(s.map[p])], data_count |-> 0]

RECURSIVE Flatten(_)
Flatten(ss) == IF ss = << >> THEN << >> ELSE Head(ss) \o Flatten(Tail(ss))

Collections(shell) == [i \in DOMAIN shell |-> shell[i].collection]

\* Fault: a Shell is retained only when it holds an item.
prune_by_items(s) ==
    [map |-> [p \in {q \in DOMAIN s.map : Flatten(Collections(s.map[q])) # << >>} |->
                s.map[p]],
     data_count |-> s.data_count]

prune(s) ==
    [map |-> [p \in {q \in DOMAIN s.map : Len(s.map[q]) > 0} |-> s.map[p]],
     data_count |-> s.data_count]

\* Fault: the items are inserted without being counted.
insert_uncounted(s, pk, sk, items) ==
    [map |-> insert_batch(s.map, pk, sk, items), data_count |-> s.data_count]

insert(s, pk, sk, items) ==
    [map |-> insert_batch(s.map, pk, sk, items),
     data_count |-> s.data_count + tap_count(items)]

count(s) == s.data_count

\* The orders in which the hash map may yield its keys.
Orders(m) ==
    {o \in [1 .. Cardinality(DOMAIN m) -> DOMAIN m] :
        \A i, j \in DOMAIN o : o[i] = o[j] => i = j}

\* Fault: only the first record of each Shell is visited.
data_first_record_only(s, o) ==
    Flatten([k \in DOMAIN o |->
               IF s.map[o[k]] = << >> THEN << >> ELSE <<s.map[o[k]][1].collection>>])

\* data(): the collections of all records, flattened over the map in order o.
data(s, o) == Flatten([k \in DOMAIN o |-> Collections(s.map[o[k]])])

\* iter(): for each primary key, the key and its (secondary key, collection) pairs.
iter(s, o) ==
    [k \in DOMAIN o |->
        <<o[k], [i \in DOMAIN s.map[o[k]] |->
                   <<s.map[o[k]][i].key, s.map[o[k]][i].collection>>]>>]

(***************************************************************************)
(* Bookkeeping of the calls made on the store.                             *)
(***************************************************************************)
Call(op, pk, sk, items) == [op |-> op, pk |-> pk, sk |-> sk, items |-> items]
NoArg == "-"
Snapshot == [map |-> map, data_count |-> data_count]

RECURSIVE SumLen(_, _)
SumLen(f, D) ==
    IF D = {} THEN 0
    ELSE LET x == CHOOSE y \in D : TRUE IN Len(f[x]) + SumLen(f, D \ {x})

\* Number of items passed to insert since the last clear_inner.
Passed == SumLen(fed, DOMAIN fed)

Records(m) == SumLen(m, DOMAIN m)

KeysOf(shell) == {shell[i].key : i \in DOMAIN shell}

PairsOf(m) == {<<p, k>> \in PK \X SK : p \in DOMAIN m /\ k \in KeysOf(m[p])}

ShellOf(m, pk) == IF pk \in DOMAIN m THEN m[pk] ELSE << >>

Note(pk, sk, items) ==
    [x \in DOMAIN fed \cup {<<pk, sk>>} |->
        IF x = <<pk, sk>>
        THEN (IF x \in DOMAIN fed THEN fed[x] ELSE << >>) \o items
        ELSE fed[x]]

(***************************************************************************)
(* The store's operations as actions.                                      *)
(***************************************************************************)
\* insert(pk, sk, items).  The secondary key is one the Shell already holds or
\* the next unused one; the items are fresh, numbered in the order passed.
InsertUnder(pks, maxRecords, maxCount) ==
    \E pk \in pks, n \in 0 .. (maxCount - Passed) :
        \E sk \in 1 .. (Cardinality(KeysOf(ShellOf(map, pk))) + 1) :
            LET items == [i \in 1 .. n |-> Passed + i]
                s == insert(self, pk, sk, items)
            IN  /\ Records(s.map) <= maxRecords
                /\ map' = s.map
                /\ data_count' = s.data_count
                /\ out' = << >>
                /\ last' = Call("insert", pk, sk, items)
                /\ prev' = Snapshot
                /\ before_clear' =
                       IF last.op = "clear_inner" THEN before_clear ELSE {}
                /\ fed' = Note(pk, sk, items)
                /\ UNCHANGED groupVars

Insert == InsertUnder(PK, MaxRecords, MaxCount)

InsertWindow == InsertUnder({"p"}, WinRecords, WinCount)

ClearInner ==
    LET s == clear_inner(self)
    IN  /\ map' = s.map
        /\ data_count' = s.data_count
        /\ out' = << >>
        /\ last' = Call("clear_inner", NoArg, 0, << >>)
        /\ prev' = Snapshot
        /\ before_clear' = PairsOf(map)
        /\ fed' = << >>
        /\ UNCHANGED groupVars

Prune ==
    LET s == prune(self)
    IN  /\ map' = s.map
        /\ data_count' = s.data_count
        /\ out' = << >>
        /\ last' = Call("prune", NoArg, 0, << >>)
        /\ prev' = Snapshot
        /\ before_clear' =
               IF last.op = "clear_inner" THEN before_clear ELSE {}
        /\ UNCHANGED fed
        /\ UNCHANGED groupVars

Data ==
    \E o \in Orders(map) :
        /\ out' = data(self, o)
        /\ last' = Call("data", NoArg, 0, << >>)
        /\ prev' = Snapshot
        /\ before_clear' = {}
        /\ UNCHANGED <<map, data_count, fed>>
        /\ UNCHANGED groupVars

Iter ==
    \E o \in Orders(map) :
        /\ out' = iter(self, o)
        /\ last' = Call("iter", NoArg, 0, << >>)
        /\ prev' = Snapshot
        /\ before_clear' = {}
        /\ UNCHANGED <<map, data_count, fed>>
        /\ UNCHANGED groupVars

Count ==
    /\ out' = <<count(self)>>
    /\ last' = Call("count", NoArg, 0, << >>)
    /\ prev' = Snapshot
    /\ before_clear' = {}
    /\ UNCHANGED <<map, data_count, fed>>
    /\ UNCHANGED groupVars

\* TwoLevelBatch::default(): an empty map and a zero count.
InitStore ==
    /\ map = << >>
    /\ data_count = 0
    /\ out = << >>
    /\ last = Call("default", NoArg, 0, << >>)
    /\ prev = [map |-> << >>, data_count |-> 0]
    /\ before_clear = {}
    /\ fed = << >>

GroupIdle ==
    /\ input = << >>
    /\ pos = 0
    /\ block = << >>
    /\ calls = << >>
    /\ left = << >>
    /\ pc = "idle"

Init == InitStore /\ GroupIdle

Next == Insert \/ ClearInner \/ Prune \/ Data \/ Iter \/ Count

Spec == Init /\ [][Next]_vars

NextWindow == InsertWindow \/ ClearInner \/ Prune

SpecWindow == Init /\ [][NextWindow]_vars

(***************************************************************************)
(* GroupIterator::for_each_group.                                          *)
(***************************************************************************)
None == << >>
Some(group_id, group_buffer) == <<[id |-> group_id, buf |-> group_buffer]>>

Inputs == UNION {[1 .. n -> GroupId \X Value] : n \in 0 .. MaxLen}

\* What the closure on_group may leave in the buffer it is handed: it may leave
\* it alone, drain it, or push a value of its own.
OnGroup(group_buffer) == {group_buffer, << >>, Append(group_buffer, 0)}

\* Fault: the buffer is not cleared after the callback.
vec_not_cleared(group_buffer) == group_buffer

\* Vec::clear
vec_clear(group_buffer) == << >>

\* Fault: every pair starts a new group.
never_same(group_id, next_group_id) == FALSE

\* batch.rs:41  group_id == &next_group_id
same_group(group_id, next_group_id) == group_id = next_group_id

\* The invocation on_group(group_id, group_buffer), recorded.
on_group(cls, group_id, group_buffer) ==
    Append(cls, [id |-> group_id, buf |-> group_buffer])

\* slot @ None
arm_none(next_group_id, value) == Some(next_group_id, <<value>>)

\* Some((group_id, group_buffer)) if group_id == &next_group_id
arm_same(blk, value) == Some(blk[1].id, Append(blk[1].buf, value))

\* Some((group_id, ref mut group_buffer)), after on_group has returned
arm_other(left_by_on_group, next_group_id, value) ==
    Some(next_group_id, Append(vec_clear(left_by_on_group), value))

\* Fault: the run in flight is not submitted when the input ends.
flush_forgotten(blk, cls) == cls

\* if let Some((group_id, mut group_buffer)) = block.take() { on_group(..) }
flush(blk, cls) == IF blk = None THEN cls ELSE on_group(cls, blk[1].id, blk[1].buf)

TakeNone ==
    /\ pc = "loop" /\ pos < Len(input) /\ block = None
    /\ block' = arm_none(input[pos + 1][1], input[pos + 1][2])
    /\ pos' = pos + 1
    /\ UNCHANGED <<input, calls, left, pc>>
    /\ UNCHANGED storeVars

TakeSame ==
    /\ pc = "loop" /\ pos < Len(input) /\ block # None
    /\ same_group(block[1].id, input[pos + 1][1])
    /\ block' = arm_same(block, input[pos + 1][2])
    /\ pos' = pos + 1
    /\ UNCHANGED <<input, calls, left, pc>>
    /\ UNCHANGED storeVars

TakeOther ==
    /\ pc = "loop" /\ pos < Len(input) /\ block # None
    /\ ~same_group(block[1].id, input[pos + 1][1])
    /\ calls' = on_group(calls, block[1].id, block[1].buf)
    /\ \E after \in OnGroup(block[1].buf) :
           /\ left' = Append(left, after)
           /\ block' = arm_other(after, input[pos + 1][1], input[pos + 1][2])
    /\ pos' = pos + 1
    /\ UNCHANGED <<input, pc>>
    /\ UNCHANGED storeVars

Flush ==
    /\ pc = "loop" /\ pos = Len(input)
    /\ calls' = flush(block, calls)
    /\ \E after \in (IF block = None THEN {None} ELSE OnGroup(block[1].buf)) :
           left' = (IF Len(calls') > Len(calls) THEN Append(left, after) ELSE left)
    /\ block' = None
    /\ pc' = "done"
    /\ UNCHANGED <<input, pos>>
    /\ UNCHANGED storeVars

InitGroup ==
    /\ InitStore
    /\ input \in Inputs
    /\ pos = 0
    /\ block = None
    /\ calls = << >>
    /\ left = << >>
    /\ pc = "loop"

NextGroup == TakeNone \/ TakeSame \/ TakeOther \/ Flush

SpecGroup == InitGroup /\ [][NextGroup]_vars

\* for_each_group runs on the caller's thread without suspension points: as
\* long as a step of it is possible, one is taken.
SpecGroupLive == SpecGroup /\ WF_vars(NextGroup)

(***************************************************************************)
(* Properties.  A call's effect is read off the state it leaves: last is   *)
(* the call, prev the store before it, map and data_count the store after. *)
(***************************************************************************)
Inserted == last.op = "insert"
Old == ShellOf(prev.map, last.pk)
Now == ShellOf(map, last.pk)
\* Positions among the first 8 records of a Shell that hold key sk.
InFirst8(shell, sk) == {i \in DOMAIN shell : i <= 8 /\ shell[i].key = sk}
Distinct(shell) == \A i, j \in DOMAIN shell : shell[i].key = shell[j].key => i = j
OthersUntouched == \A p \in DOMAIN prev.map \ {last.pk} : p \in DOMAIN map /\ map[p] = prev.map[p]

\* C1 (merge within window): an insert(pk, sk, items) whose pk's Shell already
\* holds a record with key sk among its first 8 records appends the items, in
\* order, to the end of that record's collection; no record is created, the
\* Shell keeps its length and its other records.
C1_MergeWithinWindow ==
    (Inserted /\ last.pk \in DOMAIN prev.map /\ InFirst8(Old, last.sk) # {}) =>
        /\ Len(Now) = Len(Old)
        /\ \E i \in InFirst8(Old, last.sk) :
              /\ Now[i] = [key |-> last.sk,
                           collection |-> Old[i].collection \o last.items]
              /\ \A j \in DOMAIN Old \ {i} : Now[j] = Old[j]

\* C1 witness: in a Shell of more than 8 records, insert(p, x, [i2]) has merged
\* into the record in slot 8, which held [i1] and now holds [i1, i2].
C1_Witness ==
    /\ Inserted /\ last.pk \in DOMAIN prev.map
    /\ Len(Old) > 8 /\ 8 \in InFirst8(Old, last.sk)
    /\ Old[8].collection = <<1>> /\ last.items = <<2>>
    /\ Now[8].collection = <<1, 2>>
    /\ Len(Now) = Len(Old)

NineDistinct == Inserted /\ last.pk \in DOMAIN prev.map /\ Len(Old) = 9 /\ Distinct(Old)

\* C2 as stated (no merge across window): after 9 distinct secondary keys
\* under one primary key, re-inserting the first of those keys produces a
\* second record for that key instead of merging into the first record.
C2_AsStated ==
    (NineDistinct /\ last.sk = Old[1].key) =>
        /\ Len(Now) = 10
        /\ Now[10] = [key |-> last.sk, collection |-> last.items]
        /\ Now[1] = Old[1]

\* C2 amended: after 9 distinct secondary keys under one primary key,
\* re-inserting the ninth of those keys produces a second record for that key
\* (appended, the ninth record untouched), because only that key's record lies
\* outside the 8-slot scan; re-inserting any of the first eight, the first
\* included, merges into its record and adds none.
C2_NinthKeyNotMerged ==
    /\ (NineDistinct /\ last.sk = Old[9].key) =>
          /\ Len(Now) = 10
          /\ Now[10] = [key |-> last.sk, collection |-> last.items]
          /\ SubSeq(Now, 1, 9) = Old
    /\ (NineDistinct /\ \E i \in 1 .. 8 : last.sk = Old[i].key) =>
          /\ Len(Now) = 9
          /\ \A i \in 1 .. 8 :
                last.sk = Old[i].key =>
                    Now[i].collection = Old[i].collection \o last.items

\* C2 witness: the ninth key re-inserted with an item, now held by records 9 and 10.
C2_Witness ==
    /\ NineDistinct /\ last.sk = Old[9].key /\ last.items # << >>
    /\ Len(Now) = 10 /\ Now[9].key = Now[10].key
    /\ Now[10].collection = last.items

Cleared == last.op = "clear_inner"

\* C3 as stated: after clear_inner, count() is 0 and every record that existed
\* before is still in its Shell, same key, same position, collection empty.
C3_AsStated ==
    Cleared =>
        /\ count(self) = 0
        /\ DOMAIN map = DOMAIN prev.map
        /\ \A p \in DOMAIN prev.map :
              /\ Len(map[p]) = Len(prev.map[p])
              /\ \A i \in DOMAIN prev.map[p] :
                    map[p][i] = [key |-> prev.map[p][i].key, collection |-> << >>]

\* C3 amended: after clear_inner, count() is 0 and every Shell that existed
\* before is still in the map under its primary key but holds no record:
\* clear_inner empties the Shells (their records are removed) and removes no Shell.
C3_ClearEmptiesShells ==
    Cleared =>
        /\ count(self) = 0
        /\ DOMAIN map = DOMAIN prev.map
        /\ \A p \in DOMAIN map : map[p] = << >>

\* C3 witness: clear_inner has run on a store that counted items and had a
\* Shell of two records.
C3_Witness ==
    /\ Cleared /\ prev.data_count > 0
    /\ \E p \in DOMAIN prev.map : Len(prev.map[p]) = 2 /\ p \in DOMAIN map

AfterClearSeenPair == Inserted /\ <<last.pk, last.sk>> \in before_clear

\* C4 as stated: the insert that follows clear_inner, for a (pk, sk) that had a
\* record before the clear, appends to that existing, now-empty record: no new
\* record in the Shell, no new map entry for pk.
C4_AsStated ==
    AfterClearSeenPair =>
        /\ DOMAIN map = DOMAIN prev.map
        /\ Len(Now) = Len(Old)
        /\ \E i \in DOMAIN Old :
              Old[i] = [key |-> last.sk, collection |-> << >>]
              /\ Now[i] = [key |-> last.sk, collection |-> last.items]

\* C4 amended: the insert that follows clear_inner, for a (pk, sk) that had a
\* record before the clear, finds pk's Shell still in the map but empty, and
\* pushes one fresh record for sk holding exactly the items onto it; it does
\* not create a new map entry for pk and touches no other Shell.
C4_ReinsertIntoEmptiedShell ==
    AfterClearSeenPair =>
        /\ last.pk \in DOMAIN prev.map
        /\ DOMAIN map = DOMAIN prev.map
        /\ Old = << >>
        /\ Now = <<[key |-> last.sk, collection |-> last.items]>>
        /\ OthersUntouched

\* C4 witness: such an insert, carrying items, has happened.
C4_Witness ==
    /\ AfterClearSeenPair /\ Len(last.items) = 2
    /\ Now[1].collection = last.items

\* C5 (count accuracy): count() is the number of items passed to insert since
\* the last clear_inner (or since creation); an insert adds the number of its
\* items, clear_inner sets 0, and prune, iter, data and count leave it alone.
C5_CountAccuracy ==
    /\ count(self) = Passed
    /\ Inserted => count(self) = count(prev) + Len(last.items)
    /\ Cleared => count(self) = 0
    /\ last.op \in {"prune", "iter", "data", "count"} => count(self) = count(prev)
    /\ last.op = "count" => out = <<Passed>>

\* C5 witness: a second insert of one item after a first of one item, and
\* count() is 2 = 2 x 1.
C5_Witness ==
    /\ Inserted /\ Len(last.items) = 1
    /\ count(prev) = 1 /\ count(self) = 2
    /\ Passed = 2

Pruned == last.op = "prune"

\* C6: prune removes exactly the map entries whose Shell has no record; every
\* entry whose Shell holds a record, even one with an empty collection, is
\* retained unchanged; count() is unchanged; iter() then yields no primary
\* key with an empty Shell.
C6_PruneRemovesEmptyShells ==
    Pruned =>
        /\ DOMAIN map = {p \in DOMAIN prev.map : Len(prev.map[p]) > 0}
        /\ \A p \in DOMAIN map : map[p] = prev.map[p]
        /\ count(self) = count(prev)
        /\ \A o \in Orders(map) :
              /\ {iter(self, o)[k][1] : k \in DOMAIN o} = DOMAIN map
              /\ \A k \in DOMAIN o : iter(self, o)[k][2] # << >>

\* C6 witness: a prune that removed one primary key and retained another whose
\* only record has an empty collection.
C6_Witness ==
    /\ Pruned
    /\ \E p \in DOMAIN prev.map : p \notin DOMAIN map
    /\ \E p \in DOMAIN map : map[p] = <<[key |-> 1, collection |-> << >>]>>

\* C7: clear_inner leaves the set of primary keys as it was; insert and
\* clear_inner never shrink it; a call that removes a primary key is a prune.
C7_ClearKeepsPrimaryKeys ==
    /\ Cleared => DOMAIN map = DOMAIN prev.map
    /\ last.op \in {"insert", "clear_inner"} => DOMAIN prev.map \subseteq DOMAIN map
    /\ ~(DOMAIN prev.map \subseteq DOMAIN map) => Pruned

\* C7 witness: clear_inner has run on a store holding records under both
\* primary keys, and both keys are still there.
C7_Witness ==
    /\ Cleared /\ DOMAIN map = PK
    /\ \A p \in PK : p \in DOMAIN prev.map /\ prev.map[p] # << >>

Vacant == Inserted /\ last.pk \notin DOMAIN prev.map

\* C8 (vacant insert): insert(pk, sk, items) with pk not in the map leaves pk
\* mapped to a Shell of exactly one record, with key sk and collection exactly
\* the items in order, also when items is empty.
C8_VacantInsert ==
    Vacant =>
        /\ DOMAIN map = DOMAIN prev.map \cup {last.pk}
        /\ map[last.pk] = <<[key |-> last.sk, collection |-> last.items]>>
        /\ OthersUntouched

\* C8 witness: a vacant insert of two items next to a Shell created earlier by
\* an insert without items.
C8_Witness ==
    /\ Vacant /\ Len(last.items) = 2
    /\ map[last.pk] = <<[key |-> last.sk, collection |-> last.items]>>
    /\ \E p \in DOMAIN prev.map : map[p] = <<[key |-> 1, collection |-> << >>]>>

(***************************************************************************)
(* Properties of for_each_group.                                           *)
(***************************************************************************)
Done == pc = "done"
InputValues == [i \in DOMAIN input |-> input[i][2]]
InputIds == [i \in DOMAIN input |-> input[i][1]]
Buffers == [i \in DOMAIN calls |-> calls[i].buf]
\* Number of input pairs handed over by the invocations before the i-th.
Offset(i) == SumLen(Buffers, 1 .. (i - 1))
\* Positions of the input at which a maximal run of equal keys starts.
RunStarts == {i \in DOMAIN input : i = 1 \/ input[i][1] # input[i - 1][1]}

\* C9 (grouping completeness): when for_each_group returns, the buffers passed
\* to the callback, concatenated in invocation order, are the input's values
\* in order, and their lengths sum to the input length.
C9_GroupingCompleteness ==
    Done =>
        /\ Flatten(Buffers) = InputValues
        /\ SumLen(Buffers, DOMAIN Buffers) = Len(input)

\* C9 witness: a returned call on three pairs or more, with two invocations.
C9_Witness ==
    /\ Done /\ Len(input) >= 3 /\ Len(calls) = 2
    /\ Flatten(Buffers) = InputValues

\* C10 (grouping adjacency): when for_each_group returns, the callback has been
\* invoked once per maximal run of consecutive equal keys, in input order, each
\* time with that run's key and exactly that run's values; the invocations are
\* as many as the maximal runs and consecutive ones carry different keys.
C10_GroupingAdjacency ==
    Done =>
        /\ Len(calls) = Cardinality(RunStarts)
        /\ Offset(Len(calls) + 1) = Len(input)
        /\ \A i \in DOMAIN calls :
              /\ Offset(i) + 1 \in RunStarts
              /\ calls[i].buf # << >>
              /\ \A j \in DOMAIN calls[i].buf :
                    input[Offset(i) + j] = <<calls[i].id, calls[i].buf[j]>>
        /\ \A i \in 1 .. (Len(calls) - 1) : calls[i].id # calls[i + 1].id

\* C10 witness: keys A, A, B, A have given three invocations, two of them for
\* the two non-adjacent runs of A.
C10_Witness ==
    /\ Done /\ InputIds = <<"A", "A", "B", "A">>
    /\ [i \in DOMAIN calls |-> calls[i].id] = <<"A", "B", "A">>
    /\ Len(calls[1].buf) = 2

\* Start of the last maximal run of the input, and that run's values.
LastRunStart == CHOOSE i \in RunStarts : \A j \in RunStarts : j <= i
LastRun ==
    [id |-> input[Len(input)][1],
     buf |-> [j \in 1 .. (Len(input) - LastRunStart + 1) |-> input[LastRunStart + j - 1][2]]]

\* C11 (flush on exhaustion): on an empty input the callback is never invoked;
\* on a non-empty input the step that ends for_each_group is taken when the
\* input is exhausted and submits the last run, so the last invocation carries
\* the last run's key and values; and for_each_group terminates.
C11_FlushOnExhaustion ==
    /\ [](input = << >> => calls = << >>)
    /\ []((Done /\ input # << >>) => (calls # << >> /\ calls[Len(calls)] = LastRun))
    /\ [][(pc # "done" /\ pc' = "done" /\ input # << >>) =>
            (pos = Len(input) /\ calls' = Append(calls, LastRun))]_vars
    /\ <>Done

\* C11 witness: keys A, A, A have given exactly one invocation, with 3 values.
C11_Witness ==
    /\ Done /\ InputIds = <<"A", "A", "A">>
    /\ Len(calls) = 1
    /\ calls[1] = [id |-> "A", buf |-> InputValues]

Reading == last.op \in {"iter", "data", "count"}
Occurrences(seq, x) == Cardinality({i \in DOMAIN seq : seq[i] = x})
SameContent(s1, s2) ==
    /\ Len(s1) = Len(s2)
    /\ \A i \in DOMAIN s1 : Occurrences(s1, s1[i]) = Occurrences(s2, s1[i])
\* The (primary key, position) slots of the records the store holds.
Slots == {<<p, i>> \in PK \X (1 .. Records(map)) : p \in DOMAIN map /\ i <= Len(map[p])}

\* C12: iter(), data() and count() leave the map, every Shell, every record and
\* data_count as they were; data() yields the collection of every record of
\* every Shell exactly once; iter() yields every primary key of the map exactly
\* once, each with all (secondary key, collection) pairs of its Shell in Shell
\* order; a traversal repeated with no mutation in between yields the same
\* content.
C12_ReadOnlyViews ==
    /\ [](Reading => (map = prev.map /\ data_count = prev.data_count))
    /\ [](last.op = "data" =>
            /\ Len(out) = Cardinality(Slots)
            /\ \A x \in Slots :
                  Occurrences(out, map[x[1]][x[2]].collection) =
                      Cardinality({y \in Slots : map[y[1]][y[2]].collection
                                                    = map[x[1]][x[2]].collection}))
    /\ [](last.op = "iter" =>
            /\ Len(out) = Cardinality(DOMAIN map)
            /\ {out[k][1] : k \in DOMAIN out} = DOMAIN map
            /\ \A k \in DOMAIN out :
                  /\ Len(out[k][2]) = Len(map[out[k][1]])
                  /\ \A i \in DOMAIN out[k][2] :
                        out[k][2][i] = <<map[out[k][1]][i].key,
                                         map[out[k][1]][i].collection>>)
    /\ [](last.op = "count" => out = <<data_count>>)
    /\ [][(Reading /\ last'.op = last.op) => SameContent(out, out')]_vars
    /\ [][(last'.op \in {"iter", "data", "count"}) =>
            (map' = map /\ data_count' = data_count)]_vars

\* C12 witness: data() has run on a store with both primary keys and three
\* records, and has yielded three collections, one of them holding items.
C12_Witness ==
    /\ last.op = "data" /\ DOMAIN map = PK
    /\ Cardinality(Slots) = 3 /\ Len(out) = 3
    /\ \E k \in DOMAIN out : Len(out[k]) = 2
    /\ map = prev.map

NotFound == Inserted /\ last.pk \in DOMAIN prev.map /\ InFirst8(Old, last.sk) = {}
\* The next call is an insert for the primary and secondary key of the last one.
SameKeysAgain == last'.op = "insert" /\ last'.pk = last.pk /\ last'.sk = last.sk

\* C13 as stated (not-found insert): the fresh record is appended at the end of
\* the Shell and a later insert(pk, sk, ...) does not merge into it: it leaves
\* that record alone and adds another.
C13_AsStated ==
    /\ [](NotFound => Now = Append(Old, [key |-> last.sk, collection |-> last.items]))
    /\ [][(NotFound /\ SameKeysAgain) =>
            /\ Len(map'[last.pk]) = Len(map[last.pk]) + 1
            /\ map'[last.pk][Len(map[last.pk])] = map[last.pk][Len(map[last.pk])]]_vars

\* C13 amended: an insert that finds pk present but no record with key sk in
\* the scan window appends a fresh record for sk at the end of the Shell.  When
\* the Shell already held 8 records or more, the new record lies beyond the
\* scan window and a later insert(pk, sk, ...) does not merge into it (it adds
\* another record); when the Shell held fewer than 8 records, the new record
\* lies within the window and a later insert(pk, sk, ...) merges into it.  No
\* insert changes a record beyond the first 8.
C13_NotFoundInsert ==
    /\ [](NotFound => Now = Append(Old, [key |-> last.sk, collection |-> last.items]))
    /\ []((Inserted /\ last.pk \in DOMAIN prev.map) =>
            \A i \in DOMAIN Old : i > 8 => Now[i] = Old[i])
    /\ [][(NotFound /\ SameKeysAgain) =>
            LET n == Len(map[last.pk])
            IN  IF n > 8
                THEN /\ Len(map'[last.pk]) = n + 1
                     /\ SubSeq(map'[last.pk], 1, n) = map[last.pk]
                ELSE /\ Len(map'[last.pk]) = n
                     /\ map'[last.pk][n] =
                            [key |-> last.sk,
                             collection |-> map[last.pk][n].collection \o last'.items]]_vars

\* C13 witness: a key whose record sits in slot 9, holding an item, was not
\* found by the scan and has got a second record at the end of the Shell.
C13_Witness ==
    /\ NotFound /\ Len(Old) = 9
    /\ Old[9].key = last.sk /\ Old[9].collection # << >>
    /\ Now = Append(Old, [key |-> last.sk, collection |-> last.items])

IsPrefix(s1, s2) == Len(s1) <= Len(s2) /\ SubSeq(s2, 1, Len(s1)) = s1

\* C14: an insert(pk, sk, items) leaves the Shells of all other primary keys
\* unchanged; in pk's Shell every record that existed keeps its position and
\* key and its old collection is a prefix of its new one; either one record
\* has changed and none was added, or one record was appended at the end and
\* none has changed.  So inserts never remove, reorder or merge existing
\* records, nor remove items.
C14_RecordsOnlyGrow ==
    Inserted =>
        /\ OthersUntouched
        /\ DOMAIN prev.map \subseteq DOMAIN map
        /\ Len(Old) <= Len(Now) /\ Len(Now) <= Len(Old) + 1
        /\ \A i \in DOMAIN Old :
              /\ Now[i].key = Old[i].key
              /\ IsPrefix(Old[i].collection, Now[i].collection)
        /\ Len(Now) = Len(Old) =>
              Cardinality({i \in DOMAIN Old : Now[i] # Old[i]}) <= 1
        /\ Len(Now) = Len(Old) + 1 => SubSeq(Now, 1, Len(Old)) = Old

\* C14 witness: an insert has added an item to a record that already held one,
\* in a Shell of two records, while the other primary key's Shell held a record.
C14_Witness ==
    /\ Inserted /\ Len(Old) = 2 /\ Len(Now) = 2
    /\ \E i \in DOMAIN Old :
          Old[i].collection = <<1>> /\ Now[i].collection = <<1, 2>>
    /\ \E p \in DOMAIN prev.map \ {last.pk} : prev.map[p] # << >> /\ map[p] = prev.map[p]

\* Values of the maximal run of equal keys that starts at position s.
RunAt(s) ==
    LET e == CHOOSE k \in s .. Len(input) :
                 /\ \A j \in s .. k : input[j][1] = input[s][1]
                 /\ (k = Len(input) \/ input[k + 1][1] # input[s][1])
    IN  [j \in 1 .. (e - s + 1) |-> input[s + j - 1][2]]

\* C15 (buffer reuse is isolated from the callback): whatever the callback left
\* in the buffers it was handed (untouched, drained, or with a value of its own
\* pushed), every buffer passed to it holds exactly the values of that
\* invocation's run, and the buffer in flight holds exactly the values taken
\* since the last invocation.
C15_BufferIsolated ==
    /\ \A i \in DOMAIN calls :
          /\ Offset(i) + 1 \in RunStarts
          /\ calls[i].buf = RunAt(Offset(i) + 1)
    /\ block # None =>
          block[1].buf = [j \in 1 .. (pos - Offset(Len(calls) + 1)) |->
                            input[Offset(Len(calls) + 1) + j][2]]

\* C15 witness: three invocations; the callback pushed a value of its own into
\* the first buffer and drained the second, and the second and third buffers
\* hold their runs' values.
C15_Witness ==
    /\ Len(calls) = 3 /\ Len(left) >= 2
    /\ left[1] = Append(calls[1].buf, 0)
    /\ left[2] = << >>
    /\ calls[2].buf = RunAt(Offset(2) + 1)
    /\ calls[3].buf = RunAt(Offset(3) + 1)

\* Secondary keys passed to insert under primary key p since the last clear_inner.
KeysFed(p) == {k \in SK : <<p, k>> \in DOMAIN fed}

\* C16 (bounded-window uniqueness): in every reachable state the first 8
\* records of every Shell have pairwise distinct secondary keys, and two
\* records with the same key both lie at position 9 or later; if at most 8
\* distinct secondary keys were inserted under a primary key in the epoch, its
\* Shell holds exactly one record per such key.
C16_WindowUniqueness ==
    \A p \in DOMAIN map :
        /\ \A i, j \in DOMAIN map[p] :
              (i # j /\ map[p][i].key = map[p][j].key) => (i > 8 /\ j > 8)
        /\ Cardinality(KeysFed(p)) <= 8 =>
              /\ Len(map[p]) = Cardinality(KeysFed(p))
              /\ KeysOf(map[p]) = KeysFed(p)

\* C16 witness: a Shell whose first 8 records have distinct keys and whose
\* records 9 and 10 share a key.
C16_Witness ==
    \E p \in DOMAIN map :
        /\ Len(map[p]) = 10
        /\ Cardinality({map[p][i].key : i \in 1 .. 8}) = 8
        /\ map[p][9].key = map[p][10].key

\* The collections of the records with key sk in a Shell, joined in Shell order.
RECURSIVE Joined(_, _)
Joined(shell, sk) ==
    IF shell = << >> THEN << >>
    ELSE (IF Head(shell).key = sk THEN Head(shell).collection ELSE << >>)
             \o Joined(Tail(shell), sk)

\* C17: in every reachable state, for each (pk, sk), the collections of all
\* records under pk with key sk, joined in Shell order, are the items passed to
\* insert(pk, sk, ...) since the last clear_inner, in the order passed, whether
\* the inserts merged or not.
C17_NoItemLostOrDuplicated ==
    \A p \in PK, k \in SK :
        Joined(ShellOf(map, p), k) =
            (IF <<p, k>> \in DOMAIN fed THEN fed[<<p, k>>] ELSE << >>)

\* C17 witness: a key with two records, beyond the scan window, each holding
\* one of the two items that were passed for it.
C17_Witness ==
    \E p \in DOMAIN map :
        /\ Len(map[p]) = 10
        /\ map[p][9].key = map[p][10].key
        /\ map[p][9].collection = <<1>> /\ map[p][10].collection = <<2>>
        /\ fed[<<p, map[p][9].key>>] = <<1, 2>>

\* Total size of the collections the store holds, over any order of its keys.
Stored(o) == Len(Flatten(data(self, o)))

\* C18: in every reachable state count() is the sum of the sizes of all the
\* collections held in the store, the ones data() yields.
C18_CountMatchesContents ==
    /\ \A o \in Orders(map) : count(self) = Stored(o)
    /\ last.op = "data" => count(self) = Len(Flatten(out))

\* C18 witness: count() is 2 with one item under each primary key, after a
\* prune.
C18_Witness ==
    /\ Pruned /\ count(self) = 2
    /\ \A p \in PK : p \in DOMAIN map /\ Len(Flatten(Collections(map[p]))) = 1

\* C19: a prune that immediately follows clear_inner leaves the store empty,
\* whatever was inserted before: the map has no primary key, iter() and data()
\* yield nothing and count() is 0.
C19_ClearThenPruneEmpties ==
    [][(Cleared /\ last'.op = "prune") =>
          /\ map' = << >>
          /\ data_count' = 0
          /\ \A o \in Orders(map') :
                /\ iter([map |-> map', data_count |-> data_count'], o) = << >>
                /\ data([map |-> map', data_count |-> data_count'], o) = << >>]_vars

\* C19 witness: clear_inner then prune have run on a store that held records
\* under both primary keys, and nothing is left.
C19_Witness ==
    /\ Pruned /\ map = << >> /\ count(self) = 0
    /\ DOMAIN prev.map = PK
    /\ \A p \in PK : \E k \in SK : <<p, k>> \in before_clear
    /\ fed = << >>

=============================================================================
